---- MODULE Spec2Model ----
(***************************************************************************)
(* State-machine model of the Bitcoin L2 research assistant (src/app.py,   *)
(* src/components/rag.py, src/utils.py).                                   *)
(*                                                                         *)
(* One Streamlit script run of BitcoinL2RAG.main is one action.  The       *)
(* session state st.session_state is the record ss; a key that is not in   *)
(* the session state holds the empty set, a key that is present holds the  *)
(* singleton of its value.  Texts are sequences of tokens; the reasoning   *)
(* delimiters are single tokens.                                           *)
(***************************************************************************)
EXTENDS Naturals, Sequences, FiniteSets, TLC

(***************************************************************************)
(* Bounds                                                                  *)
(***************************************************************************)
MaxContent == 2      \* distinct dataset contents
MaxLog == 4          \* messages kept in the conversation log
MaxText == 3         \* tokens of a text given to the reasoning parser
MaxPart == 2         \* tokens of the reasoning and of the answer of a tagged text
MaxResp == 4         \* characters of a response of the follow-up model
MaxItems == 4        \* items of a numbered list
MaxFeedback == 3     \* feedback events that are saved
MaxUrls == 3         \* URLs in the text of a chunk
MaxCite == 4         \* characters of a chunk text that mentions projects
MaxRecord == 5       \* tokens of a record of the dataset

OPEN == "<think>"
CLOSE == "</think>"
WS == " "

Contents == 1 .. MaxContent
Questions == {<<"q1">>, <<"q2">>}              \* question texts a user submits
RawOutputs == {<<OPEN, "r", CLOSE, WS, "y">>}  \* raw model outputs

(***************************************************************************)
(* Optional values: a key of the session state, a file on disk             *)
(***************************************************************************)
Absent == {}
Some(v) == {v}
Has(o) == o # {}
Get(o) == CHOOSE v \in o : TRUE

(***************************************************************************)
(* Texts                                                                   *)
(***************************************************************************)
Tokens == {OPEN, CLOSE, WS, "x"}

NL == "\n"
IsSpace(c) == c \in {WS, NL}

\* str.strip(): drop leading and trailing whitespace
RECURSIVE lstrip(_)
lstrip(t) == IF t # <<>> /\ IsSpace(Head(t)) THEN lstrip(Tail(t)) ELSE t

RECURSIVE rstrip(_)
rstrip(t) ==
  IF t # <<>> /\ IsSpace(t[Len(t)])
  THEN rstrip(SubSeq(t, 1, Len(t) - 1)) ELSE t

strip(t) == rstrip(lstrip(t))

\* positions of the leftmost match of r'<think>(.*?)</think>' (re.DOTALL)
ClosesAfter(t, i) == {j \in (i + 1) .. Len(t) : t[j] = CLOSE}
MatchStarts(t) == {i \in 1 .. Len(t) : t[i] = OPEN /\ ClosesAfter(t, i) # {}}
Least(S) == CHOOSE n \in S : \A k \in S : n <= k
\* a greedy pattern r'<think>(.*)</think>': the match ends at the last
\* closing tag
Greatest(S) == CHOOSE n \in S : \A k \in S : k <= n
think_search_greedy(t) ==
  IF MatchStarts(t) = {} THEN Absent
  ELSE LET i == Least(MatchStarts(t))
       IN  Some([start |-> i, end |-> Greatest(ClosesAfter(t, i))])

think_search(t) ==
  IF MatchStarts(t) = {} THEN Absent
  ELSE LET i == Least(MatchStarts(t))
       IN  Some([start |-> i, end |-> Least(ClosesAfter(t, i))])

\* re.sub(think_pattern, '', raw_response, flags=re.DOTALL)
RECURSIVE think_sub(_)
think_sub(t) ==
  LET m == think_search(t)
  IN  IF ~Has(m) THEN t
      ELSE SubSeq(t, 1, Get(m).start - 1)
             \o think_sub(SubSeq(t, Get(m).end + 1, Len(t)))

\* the fallback branch also strips the text
parse_thinking_and_response_stripped(raw_response) ==
  LET thinking_match == think_search(raw_response)
  IN  IF Has(thinking_match)
      THEN [thinking |-> strip(SubSeq(raw_response,
                                      Get(thinking_match).start + 1,
                                      Get(thinking_match).end - 1)),
            answer |-> strip(think_sub(raw_response))]
      ELSE [thinking |-> <<>>, answer |-> strip(raw_response)]

parse_thinking_and_response(raw_response) ==
  LET thinking_match == think_search(raw_response)
  IN  IF Has(thinking_match)
      THEN [thinking |-> strip(SubSeq(raw_response,
                                      Get(thinking_match).start + 1,
                                      Get(thinking_match).end - 1)),
            answer |-> strip(think_sub(raw_response))]
      ELSE [thinking |-> <<>>, answer |-> raw_response]

(***************************************************************************)
(* src/utils.py: QuestionGenerator.generate_related_questions.  A response *)
(* of the model is a sequence of characters.                               *)
(***************************************************************************)
MaxQuestions == 3    \* max_questions

DOT == "."
Digits == {"1", "2", "3", "4", "5", "6"}
Terminators == {".", "?", "!"}
IsDigit(c) == c \in Digits

\* r'\d+\.' matched from position i: the position of the period, 0 when
\* there is no match
RECURSIVE number_end(_, _)
number_end(t, i) ==
  IF i > Len(t) THEN 0
  ELSE IF IsDigit(t[i]) THEN number_end(t, i + 1)
  ELSE IF t[i] = DOT /\ i > 1 /\ IsDigit(t[i - 1]) THEN i
  ELSE 0

NumberAt(t, i) == i >= 1 /\ i <= Len(t) /\ IsDigit(t[i]) /\ number_end(t, i) # 0

\* r'\s*' from position i: the first position that is no whitespace
RECURSIVE skip_space(_, _)
skip_space(t, i) ==
  IF i <= Len(t) /\ IsSpace(t[i]) THEN skip_space(t, i + 1) ELSE i

\* r'(.*?)(?=\d+\.|$)' from position a: the capture ends before the next
\* number, at the end of the text or before its final newline
RECURSIVE capture_end(_, _)
capture_end(t, a) ==
  IF a > Len(t) \/ (a = Len(t) /\ t[a] = NL) \/ NumberAt(t, a) THEN a
  ELSE capture_end(t, a + 1)

\* re.findall(r'\d+\.\s*(.*?)(?=\d+\.|$)', response_text, re.DOTALL) from
\* position p on
RECURSIVE findall(_, _)
findall(t, p) ==
  IF p > Len(t) THEN <<>>
  ELSE IF ~NumberAt(t, p) THEN findall(t, p + 1)
  ELSE LET a == skip_space(t, number_end(t, p) + 1)
           b == capture_end(t, a)
       IN  <<SubSeq(t, a, b - 1)>> \o findall(t, b)

\* re.split(r'(?<=[.?!])\s+', question, 1)[0]
RECURSIVE first_sentence_from(_, _)
first_sentence_from(q, i) ==
  IF i > Len(q) THEN q
  ELSE IF IsSpace(q[i]) /\ q[i - 1] \in Terminators THEN SubSeq(q, 1, i - 1)
  ELSE first_sentence_from(q, i + 1)

first_sentence(q) == first_sentence_from(q, 2)

clean_question(match) == strip(first_sentence(strip(match)))

\* the questions of a list of matches that are not empty once cleaned
RECURSIVE clean_questions(_)
clean_questions(matches) ==
  IF matches = <<>> THEN <<>>
  ELSE LET q == clean_question(Head(matches))
       IN  (IF q # <<>> THEN <<q>> ELSE <<>>) \o clean_questions(Tail(matches))

\* response_text.split('\n')
RECURSIVE split_lines(_, _)
split_lines(t, line) ==
  IF t = <<>> THEN <<line>>
  ELSE IF Head(t) = NL THEN <<line>> \o split_lines(Tail(t), <<>>)
  ELSE split_lines(Tail(t), Append(line, Head(t)))

\* the alternate approach: the lines that start with a number
RECURSIVE numbered_lines(_)
numbered_lines(lines) ==
  IF lines = <<>> THEN <<>>
  ELSE LET line == strip(Head(lines))
       IN  (IF NumberAt(line, 1)
            THEN <<SubSeq(line, skip_space(line, number_end(line, 1) + 1),
                          Len(line))>>
            ELSE <<>>) \o numbered_lines(Tail(lines))

\* the first n elements: questions[:max_questions]
FirstN(q, n) == SubSeq(q, 1, IF Len(q) < n THEN Len(q) ELSE n)

\* lines 290-321: the questions parsed from the text of the response
parse_questions(response_text, max_questions) ==
  LET questions == clean_questions(findall(response_text, 1))
  IN  IF questions # <<>> THEN FirstN(questions, max_questions)
      ELSE FirstN(clean_questions(
                    numbered_lines(split_lines(response_text, <<>>))),
                  max_questions)

\* a failed call that gives back the previous question
generate_related_questions_raising(previous_query, max_questions, response) ==
  IF ~Has(response) THEN <<previous_query>>
  ELSE parse_questions(Get(response), max_questions)

\* response is Absent when _get_client or client.invoke raises (a missing
\* credential included): the except branch returns []
generate_related_questions(previous_query, max_questions, response) ==
  IF ~Has(response) THEN <<>>
  ELSE parse_questions(Get(response), max_questions)

(***************************************************************************)
(* src/components/ui.py: UIComponents.display_citations.  The text of a    *)
(* chunk is a sequence of characters; HTTP stands for the characters       *)
(* 'http://' or 'https://'.                                                *)
(***************************************************************************)
HTTP == "http://"

\* the characters that none of the alternatives of the pattern accepts
NotUrlChars == {WS, NL, "#", "~"}
IsUrlChar(c) == c \notin NotUrlChars

UpperCase ==
  <<"A", "B", "C", "D", "E", "F", "G", "H", "I", "J", "K", "L", "M", "N",
    "O", "P", "Q", "R", "S", "T", "U", "V", "W", "X", "Y", "Z">>
LowerCase ==
  <<"a", "b", "c", "d", "e", "f", "g", "h", "i", "j", "k", "l", "m", "n",
    "o", "p", "q", "r", "s", "t", "u", "v", "w", "x", "y", "z">>

\* str.lower()
lower_char(c) ==
  IF \E i \in DOMAIN UpperCase : UpperCase[i] = c
  THEN LowerCase[CHOOSE i \in DOMAIN UpperCase : UpperCase[i] = c]
  ELSE c
lower(t) == [i \in 1 .. Len(t) |-> lower_char(t[i])]

\* sub in t
Contains(t, sub) ==
  \E i \in 0 .. Len(t) - Len(sub) :
     \A j \in 1 .. Len(sub) : t[i + j] = sub[j]

l2_projects ==
  {<<"L", "i", "g", "h", "t", "n", "i", "n", "g">>,
   <<"L", "i", "q", "u", "i", "d">>,
   <<"R", "o", "o", "t", "s", "t", "o", "c", "k">>,
   <<"R", "S", "K">>,
   <<"S", "t", "a", "c", "k", "s">>,
   <<"A", "r", "k">>,
   <<"T", "a", "c", "h", "i">>,
   <<"B", "i", "t", "l", "a", "y", "e", "r">>,
   <<"B", "i", "t", "c", "o", "i", "n", "O", "S">>,
   <<"B", "a", "b", "y", "l", "o", "n">>,
   <<"M", "e", "r", "l", "i", "n">>,
   <<"C", "o", "r", "e", "D", "A", "O">>,
   <<"A", "r", "c", "h">>}

\* the end of the link that starts before position i: the first position
\* whose character the pattern does not accept
RECURSIVE link_end(_, _)
link_end(t, i) ==
  IF i <= Len(t) /\ IsUrlChar(t[i]) THEN link_end(t, i + 1) ELSE i

\* re.findall(r'http[s]?://(?:...)+', doc.page_content) from position p on
RECURSIVE find_links(_, _)
find_links(t, p) ==
  IF p > Len(t) THEN <<>>
  ELSE IF t[p] = HTTP /\ p < Len(t) /\ IsUrlChar(t[p + 1])
  THEN <<SubSeq(t, p, link_end(t, p + 1) - 1)>>
         \o find_links(t, link_end(t, p + 1))
  ELSE find_links(t, p + 1)

\* lines 881-898: the links and the projects of the chunks from i on
RECURSIVE collect_citations(_, _, _)
collect_citations(context, i, citations) ==
  IF i > Len(context) THEN citations
  ELSE LET doc == context[i]
           content == lower(doc.page_content)
       IN  collect_citations(context, i + 1,
             [links |-> (citations.links \o find_links(doc.page_content, 1))
                          \o (IF Has(doc.url) THEN <<Get(doc.url)>>
                              ELSE <<>>),
              projects_mentioned |->
                 citations.projects_mentioned
                   \cup {project \in l2_projects :
                           Contains(content, lower(project))}])

Range(q) == {q[i] : i \in DOMAIN q}

\* list(set(links)): the distinct links in an order that the build chooses
Orderings(S) ==
  {q \in [1 .. Cardinality(S) -> S] : Range(q) = S}

\* the results that display_citations can work with: every order of the
\* distinct links
display_citations(context) ==
  LET citations == collect_citations(context, 1,
                     [links |-> <<>>, projects_mentioned |-> {}])
  IN  {[links |-> q, projects_mentioned |-> citations.projects_mentioned] :
         q \in Orderings(Range(citations.links))}

(***************************************************************************)
(* src/components/rag.py: the text splitter of create_vector_store,        *)
(* RecursiveCharacterTextSplitter(chunk_size=1000, chunk_overlap=200,      *)
(* separators=["\n\n", "\n", ",", " "]).  A text is a sequence of tokens:  *)
(* the separators' characters and words, "w" and "v", that stand for runs  *)
(* of characters with no separator in them.                                *)
(***************************************************************************)
ChunkSize == 1000
ChunkOverlap == 200
Separators == <<<<NL, NL>>, <<NL>>, <<",">>, <<WS>>>>

\* len() of a token
Weight(c) ==
  IF c = "w" THEN 2 * ChunkOverlap
  ELSE IF c = "v" THEN ChunkOverlap \div 2
  ELSE 1

RECURSIVE TextLen(_)
TextLen(t) == IF t = <<>> THEN 0 ELSE Weight(Head(t)) + TextLen(Tail(t))

RECURSIVE PiecesLen(_)
PiecesLen(pieces) ==
  IF pieces = <<>> THEN 0 ELSE TextLen(Head(pieces)) + PiecesLen(Tail(pieces))

RECURSIVE Flatten(_)
Flatten(pieces) ==
  IF pieces = <<>> THEN <<>> ELSE Head(pieces) \o Flatten(Tail(pieces))

MatchAt(t, i, sep) ==
  /\ i + Len(sep) - 1 <= Len(t)
  /\ \A j \in 1 .. Len(sep) : t[i + j - 1] = sep[j]

\* re.search(separator, text)
HasSeparator(t, sep) == \E i \in 1 .. Len(t) : MatchAt(t, i, sep)

\* the split at every separator, each separator kept at the start of the
\* piece that follows it; empty pieces are dropped
RECURSIVE split_with_regex(_, _, _, _)
split_with_regex(t, sep, i, piece) ==
  IF i > Len(t) THEN (IF piece = <<>> THEN <<>> ELSE <<piece>>)
  ELSE IF MatchAt(t, i, sep)
  THEN (IF piece = <<>> THEN <<>> ELSE <<piece>>)
         \o split_with_regex(t, sep, i + Len(sep), sep)
  ELSE split_with_regex(t, sep, i + 1, Append(piece, t[i]))

\* the pieces joined and stripped: no chunk when nothing is left
join_docs(current) ==
  IF strip(Flatten(current)) = <<>> THEN <<>>
  ELSE <<strip(Flatten(current))>>

\* pieces are dropped from the front until the overlap is small enough and
\* the next piece fits
RECURSIVE drop_front(_, _)
drop_front(current, next_len) ==
  IF PiecesLen(current) > ChunkOverlap
     \/ (PiecesLen(current) + next_len > ChunkSize /\ PiecesLen(current) > 0)
  THEN drop_front(Tail(current), next_len)
  ELSE current

\* _merge_splits: the pieces from i on are gathered into chunks of at most
\* chunk_size that overlap by at most chunk_overlap
RECURSIVE merge_splits(_, _, _)
merge_splits(splits, i, current) ==
  IF i > Len(splits) THEN join_docs(current)
  ELSE IF PiecesLen(current) + TextLen(splits[i]) > ChunkSize
          /\ current # <<>>
  THEN join_docs(current)
         \o merge_splits(splits, i + 1,
                         Append(drop_front(current, TextLen(splits[i])),
                                splits[i]))
  ELSE merge_splits(splits, i + 1, Append(current, splits[i]))

\* the first separator of the list that occurs in the text, the last one
\* when none occurs
RECURSIVE separator_index(_, _, _)
separator_index(t, separators, i) ==
  IF i >= Len(separators) \/ HasSeparator(t, separators[i]) THEN i
  ELSE separator_index(t, separators, i + 1)

\* _split_text: short pieces are merged, a long piece is split again with
\* the separators that remain
RECURSIVE split_text(_, _)
RECURSIVE split_pieces(_, _, _, _)
split_pieces(splits, j, good_splits, new_separators) ==
  IF j > Len(splits) THEN merge_splits(good_splits, 1, <<>>)
  ELSE IF TextLen(splits[j]) < ChunkSize
  THEN split_pieces(splits, j + 1, Append(good_splits, splits[j]),
                    new_separators)
  ELSE (merge_splits(good_splits, 1, <<>>)
          \o (IF new_separators = <<>> THEN <<splits[j]>>
              ELSE split_text(splits[j], new_separators)))
         \o split_pieces(splits, j + 1, <<>>, new_separators)

split_text(text, separators) ==
  split_pieces(
    split_with_regex(text, separators[separator_index(text, separators, 1)],
                     1, <<>>),
    1, <<>>,
    IF HasSeparator(text, separators[separator_index(text, separators, 1)])
    THEN SubSeq(separators, separator_index(text, separators, 1) + 1,
                Len(separators))
    ELSE <<>>)

\* the chunks of a build are added to the chunks of the build before
split_documents_accumulating(all_documents, previous) ==
  previous \o Flatten([i \in 1 .. Len(all_documents) |->
                         split_text(all_documents[i], Separators)])

\* split_documents: the chunks of every record, in the order of the records;
\* previous, the final_documents that the session state holds, is replaced
split_documents(all_documents, previous) ==
  Flatten([i \in 1 .. Len(all_documents) |->
             split_text(all_documents[i], Separators)])

(***************************************************************************)
(* State                                                                   *)
(***************************************************************************)
VARIABLES
  ss,         \* st.session_state
  file,       \* data.csv: Absent, or the content it holds
  disk,       \* chat_history/<session_id>.json: Absent, or the saved messages;
              \* before the session has an id, the file named after now
  box,        \* text typed into the question input
  custom_key, \* a custom API key is entered in the sidebar
  env_key,    \* OPENROUTER_API_KEY is set in the environment
  pending,    \* the last run ended in st.rerun()
  run,        \* record of what the last script run did
  pt,         \* input and result of a call of a parsing function
  slider,     \* value of the Search Depth slider
  now,        \* int(time.time()): the current second
  other,      \* the history file named after the other second
  peer,       \* another session of the application
  feedback_dir \* the files of the feedback directory and the number of saves

vars ==
  <<ss, file, disk, box, custom_key, env_key, pending, run, pt, slider, now,
    other, peer, feedback_dir>>

Idx == 0 .. (MaxLog \div 2)

\* st.sidebar.slider("Search Depth", 3, 15, 8)
MinDepth == 3
MaxDepth == 15
DefaultDepth == 8
Depths == MinDepth .. MaxDepth

\* two seconds of the clock
FirstSecond == "t0"
LaterSecond == "t1"

Seconds == {FirstSecond, LaterSecond}

\* f"{feedback_type}_{timestamp}.json"
FeedbackPaths == [type : {"positive", "negative"}, timestamp : Seconds]

\* an empty feedback directory
NoFeedback == [files |-> [p \in FeedbackPaths |-> Absent], saved |-> 0]

\* a session that has not run yet
NoPeer == [session_id |-> Absent, chat_history |-> <<>>]

HumanMessage(c) == [type |-> "human", content |-> c, obj |-> TRUE]
AIMessage(c) == [type |-> "ai", content |-> c, obj |-> TRUE]

\* json.dump(messages, f, default=lambda x: x.__dict__) followed by
\* json.load: every message comes back as a plain dict
to_json(messages) ==
  [i \in 1 .. Len(messages) |-> [messages[i] EXCEPT !.obj = FALSE]]

\* hashlib.md5 over the file content
get_file_hash(content) == [md5 |-> content]

NoneVal == [none |-> TRUE]
Truthy(o) == Has(o) /\ Get(o) # NoneVal

EmptyState ==
  [session_id |-> Absent, csv_hash |-> Absent, vectors |-> Absent,
   csv_data |-> Absent, web_documents |-> Absent, docs |-> Absent,
   final_documents |-> Absent, embeddings |-> Absent,
   chat_history |-> Absent, memory |-> Absent, response_data |-> Absent,
   thinking |-> [i \in Idx |-> Absent], context |-> [i \in Idx |-> Absent],
   tab_id |-> Absent, sample_question_selected |-> Absent,
   regenerate_query |-> Absent, query_fingerprint |-> Absent,
   show_feedback |-> Absent, openrouter_api_key |-> Absent,
   search_depth |-> Absent,
   related_questions |-> [q \in Questions |-> Absent]]

NoRun ==
  [ev |-> [kind |-> "none"], ctl |-> "done", shown |-> {}, widgets |-> {},
   mismatch |-> FALSE, checked |-> Absent, inits |-> FALSE,
   started |-> FALSE, init_before |-> <<>>, init_after |-> <<>>,
   pq |-> "none", pq_query |-> <<>>, pq_before |-> <<>>, pq_after |-> <<>>,
   pq_history |-> <<>>, pq_raw |-> <<>>, regenerate_query |-> <<>>,
   served |-> Absent, saved |-> "none", calls |-> 0,
   followup_calls |-> 0, asked |-> FALSE, input |-> <<>>, is_new |-> FALSE,
   k |-> 0, retrieved |-> <<>>]

\* the value threaded through one script run
Start(s, d, fb, ev) ==
  [ss |-> s, disk |-> d, fb |-> fb, ctl |-> "go", query |-> <<>>,
   box |-> <<>>, tr |-> [NoRun EXCEPT !.ev = ev, !.ctl = "go"]]

Show(m, msg) == [m EXCEPT !.tr.shown = @ \cup {msg}]
Render(m, w) == [m EXCEPT !.tr.widgets = @ \cup {w}]
Ctl(m, c) == [m EXCEPT !.ctl = c]

\* st.session_state.chat_history.messages ([] while the key is not set)
Messages(s) == IF Has(s.chat_history) THEN Get(s.chat_history) ELSE <<>>

(***************************************************************************)
(* Outcomes of the external calls of one script run                        *)
(***************************************************************************)
\* responses of the follow-up model: Absent when the call raises
RelatedResponses ==
  {Absent, Some(<<>>), Some(<<"1", DOT, WS, "q2", NL>>)}
NoRelated == Some(<<>>)

Outcomes ==
  [emb : BOOLEAN,                     \* OllamaEmbeddings(...) succeeds
   hist : BOOLEAN,                    \* the history file can be read
   load : BOOLEAN,                    \* CSVLoader(...).load() succeeds
   vs : BOOLEAN,                      \* FAISS.from_documents succeeds
   llm : {Absent} \cup {Some(r) : r \in RawOutputs},  \* chain.invoke
   save : BOOLEAN,                    \* the history file can be written
   fb : BOOLEAN,                      \* the feedback file can be written
   rel : RelatedResponses]            \* response of the follow-up model

(***************************************************************************)
(* src/app.py: BitcoinL2RAG.check_csv_updates                              *)
(***************************************************************************)
check_csv_updates(m, f) ==
  IF ~Has(f) THEN m
  ELSE LET current_hash == get_file_hash(Get(f))
       IN  IF ~Has(m.ss.csv_hash)
           THEN [m EXCEPT !.ss.csv_hash = Some(current_hash)]
           ELSE IF Get(m.ss.csv_hash) # current_hash
           THEN LET s1 == [m.ss EXCEPT !.csv_hash = Some(current_hash),
                                       !.vectors = Absent,
                                       !.csv_data = Absent,
                                       !.web_documents = Absent]
                IN  [m EXCEPT !.ss = s1, !.tr.mismatch = TRUE,
                              !.tr.checked =
                                 Some([docs |-> s1.docs,
                                       final_documents |-> s1.final_documents,
                                       vectors |-> s1.vectors,
                                       csv_data |-> s1.csv_data,
                                       web_documents |-> s1.web_documents,
                                       csv_hash |-> s1.csv_hash,
                                       current_hash |-> current_hash])]
           ELSE m

(***************************************************************************)
(* src/components/rag.py: RAGComponents                                    *)
(***************************************************************************)
\* returns m with ctl = "return" when the function returns False
initialize_embeddings(m, env) ==
  IF ~env.emb THEN Ctl(Show(m, "error_embeddings"), "return")
  ELSE [m EXCEPT !.ss.embeddings = Some("nomic-embed-text"),
                 !.ss.chat_history =
                    IF Has(@) THEN @ ELSE Some(<<>>),
                 !.ss.memory = Some("chat_history")]

load_csv_data(m, f, env) ==
  IF env.load THEN [m EXCEPT !.ss.docs = f, !.ss.csv_data = f]
  ELSE Show(m, "error_loading_csv")

create_vector_store(m, env) ==
  IF ~Has(m.ss.docs) THEN Show(m, "error_vector_store")
  ELSE LET m1 == [m EXCEPT !.ss.final_documents = m.ss.docs]
       IN  IF env.vs
           THEN [m1 EXCEPT !.ss.vectors = m1.ss.final_documents]
           ELSE Show(m1, "error_vector_store")

\* the depth of the retriever is the default whatever the setting
search_depth_default(s) == DefaultDepth

\* getattr(st.session_state, 'search_depth', 8)
search_depth(s) ==
  IF Has(s.search_depth) THEN Get(s.search_depth) ELSE DefaultDepth

\* a chain is built even when st.session_state.vectors is missing
create_llm_chain_unindexed(m) ==
  IF ~Truthy(m.ss.openrouter_api_key)
  THEN [m |-> Show(m, "error_no_api_key"), chain |-> Absent]
  ELSE [m |-> m,
        chain |-> Some([src |-> m.ss.vectors, k |-> search_depth(m.ss)])]

\* Absent for None; ctl = "raise" when st.session_state.vectors is missing
create_llm_chain(m) ==
  IF ~Truthy(m.ss.openrouter_api_key)
  THEN [m |-> Show(m, "error_no_api_key"), chain |-> Absent]
  ELSE IF ~Has(m.ss.vectors)
  THEN [m |-> Ctl(m, "raise"), chain |-> Absent]
  ELSE [m |-> m,
        chain |-> Some([src |-> Get(m.ss.vectors),
                        k |-> search_depth(m.ss)])]

\* the chunks of an index: one more than the largest depth
NumChunks == MaxDepth + 1

\* similarity of a chunk of the index to the query
Similarity(query, src, i) ==
  ((i * (IF query = <<"q1">> THEN 3 ELSE 5)) + Len(query)) % 7

\* the retriever of vectors.as_retriever(search_kwargs={"k": k}): the k
\* chunks of the index most similar to the query, the most similar first
similarity_search(src, query, k) ==
  LET ranked == SortSeq([i \in 1 .. NumChunks |-> i],
                        LAMBDA a, b : Similarity(query, src, a)
                                        > Similarity(query, src, b))
  IN  SubSeq(ranked, 1, IF k < NumChunks THEN k ELSE NumChunks)

\* the log is replaced by the new turn instead of being extended
add_messages_replacing(messages, query, actual_answer) ==
  <<HumanMessage(query), AIMessage(actual_answer)>>

\* lines 186-187: add_user_message(query), add_ai_message(actual_answer)
add_messages(messages, query, actual_answer) ==
  (messages \o <<HumanMessage(query)>>) \o <<AIMessage(actual_answer)>>

\* the question is added to the history before the chain is invoked
log_after_failure_with_question(messages, query) ==
  Append(messages, HumanMessage(query))

\* lines 169-187, 194-196: the history is written only after the chain has
\* returned and the output is parsed, so a failed call leaves it as it was
log_after_failure(messages, query) == messages

\* line 178: st.session_state.memory.chat_memory.messages; the memory is
\* built on the history object of the session (lines 33-38)
chat_memory_messages(s) ==
  IF s.memory = Some("chat_history") THEN Messages(s) ELSE <<>>

\* the raw output is stored as the answer
actual_answer_raw(raw_answer) == raw_answer

\* lines 181-183: the answer that is stored and returned
actual_answer(raw_answer) == parse_thinking_and_response(raw_answer).answer

\* ctl = "raise" when the function re-raises; response is then Absent
process_query(m, query, f, env) ==
  LET c == create_llm_chain(m)
      before == Messages(m.ss)
      m0 == [c.m EXCEPT !.tr.pq_query = query, !.tr.pq_before = before]
      failed(mm) ==
        LET m9 == [mm EXCEPT !.ss.chat_history =
                     IF Has(@)
                     THEN Some(log_after_failure(Get(@), query)) ELSE @]
        IN  [m |-> Ctl(Show([m9 EXCEPT !.tr.pq = "fail",
                                       !.tr.pq_after = Messages(m9.ss)],
                            "error_process_query"), "raise"),
             response |-> Absent]
  IN  IF ~Has(c.chain) THEN failed(m0)
      ELSE LET m1 == [m0 EXCEPT !.tr.calls = @ + 1,
                                !.tr.pq_history = chat_memory_messages(m0.ss),
                                !.tr.pq_raw = IF Has(env.llm) THEN Get(env.llm)
                                              ELSE <<>>]
           IN  IF ~Has(env.llm) THEN failed(m1)
               ELSE
                 LET parsed == parse_thinking_and_response(Get(env.llm))
                     answer == actual_answer(Get(env.llm))
                     log == add_messages(Messages(m1.ss), query, answer)
                     docs == similarity_search(Get(c.chain).src, query,
                                               Get(c.chain).k)
                     m2 == [m1 EXCEPT
                              !.ss.chat_history = Some(log),
                              !.tr.k = Get(c.chain).k,
                              !.tr.retrieved = docs,
                              !.tr.pq = "ok",
                              !.tr.pq_after = log,
                              !.tr.served =
                                 Some([vectors |-> m1.ss.vectors,
                                       final_documents |->
                                          m1.ss.final_documents,
                                       docs |-> m1.ss.docs,
                                       csv_hash |-> m1.ss.csv_hash,
                                       file |-> f])]
                 IN  [m |-> m2,
                      response |->
                        Some([answer |-> answer,
                              thinking |-> parsed.thinking,
                              context |-> [q |-> query, docs |-> docs]])]

(***************************************************************************)
(* src/utils.py: FileUtils                                                 *)
(***************************************************************************)
\* a failed write leaves the file as it was
save_chat_history(m, messages, env) ==
  IF env.save
  THEN [m EXCEPT !.disk = Some(to_json(messages)), !.tr.saved = "ok"]
  ELSE [m EXCEPT !.tr.saved = "fail"]

load_chat_history(m, env) ==
  IF env.hist /\ Has(m.disk) THEN Get(m.disk) ELSE <<>>

\* the timestamp has the resolution of a second; open(file_path, "w")
\* replaces a file of the same name; a failed write is printed and ignored
save_feedback(m, feedback_type, feedback_text, query, time, env) ==
  IF env.fb
  THEN [m EXCEPT
          !.fb.files[[type |-> feedback_type, timestamp |-> time]] =
             Some([timestamp |-> time, type |-> feedback_type,
                   feedback |-> feedback_text, query |-> query]),
          !.fb.saved = @ + 1]
  ELSE m

(***************************************************************************)
(* src/app.py: BitcoinL2RAG.initialize_components                          *)
(***************************************************************************)
initialize_components(m, f, env) ==
  LET m1 == check_csv_updates(m, f)
  IN  IF Has(m1.ss.vectors) THEN m1
      ELSE
        LET m2 == initialize_embeddings(
                    [m1 EXCEPT !.tr.inits = TRUE,
                               !.tr.started = Has(m1.ss.chat_history),
                               !.tr.init_before = Messages(m1.ss),
                               !.tr.init_after = Messages(m1.ss)], env)
        IN  IF m2.ctl = "return" THEN m2
            ELSE
              LET saved_messages ==
                    IF Has(m2.ss.chat_history) /\ Has(m2.ss.session_id)
                    THEN load_chat_history(m2, env) ELSE <<>>
                  log == Messages(m2.ss) \o saved_messages
                  m3 == IF saved_messages # <<>>
                        THEN Show([m2 EXCEPT !.ss.chat_history = Some(log),
                                             !.tr.init_after = log],
                                  "info_loaded_conversation")
                        ELSE m2
              IN  IF ~Has(f)
                  THEN Ctl(Show(m3, "error_csv_not_found"), "return")
                  ELSE
                    LET m4 == load_csv_data(m3, f, env)
                        m5 == Show([m4 EXCEPT !.ss.web_documents =
                                                Some(<<>>)],
                                   "initialized_successfully")
                    IN  create_vector_store(m5, env)

(***************************************************************************)
(* src/app.py: BitcoinL2RAG.display_sidebar_stats                          *)
(***************************************************************************)
\* the click events of a rendered button: Submit Feedback is clicked with an
\* empty or a filled text area
Events(w) ==
  IF w.kind = "submit"
  THEN {[kind |-> "submit", feedback |-> b] : b \in BOOLEAN}
  ELSE {w}

\* st.button returns True in the run that its click starts
Clicked(m, w) == m.tr.ev \in Events(w)

HumanIndexes(messages) ==
  {i \in 1 .. Len(messages) : messages[i].type = "human"}

HistButton(messages, i) ==
  [kind |-> "hist", i |-> i - 1, q |-> messages[i].content]

\* the history buttons, in order; a click stores the question and reruns
RECURSIVE history_buttons(_, _, _)
history_buttons(m, messages, i) ==
  IF i > Len(messages) THEN m
  ELSE IF messages[i].type # "human" THEN history_buttons(m, messages, i + 1)
  ELSE LET w == HistButton(messages, i)
           m1 == Render(m, w)
       IN  IF Clicked(m1, w)
           THEN Ctl([m1 EXCEPT !.ss.sample_question_selected = Some(w.q)],
                    "rerun")
           ELSE history_buttons(m1, messages, i + 1)

ClearButton == [kind |-> "clear"]

display_sidebar_stats(m, envkey, customkey, depth) ==
  LET key == IF customkey THEN Some([key |-> "custom"])
             ELSE IF envkey THEN Some([key |-> "env"]) ELSE Some(NoneVal)
      m1 == [m EXCEPT !.ss.openrouter_api_key = key,
                      !.ss.search_depth = Some(depth)]
      messages == Messages(m1.ss)
      \* msg.type of a dict loaded from the history file: AttributeError
      m2 == IF \E i \in 1 .. Len(messages) : ~messages[i].obj
            THEN Ctl(m1, "raise")
            ELSE history_buttons(m1, messages, 1)
  IN  IF m2.ctl # "go" THEN m2
      ELSE LET m3 == Render(m2, ClearButton)
           IN  IF Clicked(m3, ClearButton) /\ Has(m3.ss.chat_history)
               THEN Ctl([m3 EXCEPT
                           !.ss.chat_history = Some(<<>>),
                           !.ss.response_data = Absent,
                           !.ss.thinking = [i \in Idx |-> Absent],
                           !.ss.context = [i \in Idx |-> Absent]],
                        "rerun")
               ELSE m3

(***************************************************************************)
(* src/app.py: BitcoinL2RAG.display_related_questions,                     *)
(* src/components/ui.py: UIComponents.display_sample_questions             *)
(***************************************************************************)
\* buttons for the questions of a list, in order
RECURSIVE question_buttons(_, _, _, _)
question_buttons(m, kind, list, i) ==
  IF i > Len(list) THEN m
  ELSE LET w == [kind |-> kind, i |-> i - 1, q |-> list[i]]
           m1 == Render(m, w)
       IN  IF Clicked(m1, w)
           THEN Ctl([m1 EXCEPT !.ss.sample_question_selected = Some(w.q)],
                    "rerun")
           ELSE question_buttons(m1, kind, list, i + 1)

\* lines 246-266: the buttons of the related questions, or a notice
shown_questions(m, related_questions) ==
  IF related_questions = <<>> THEN Show(m, "info_no_related_questions")
  ELSE question_buttons(m, "related", related_questions, 1)

\* lines 236-240: re.split and strip of every question
clean_for_display(questions) ==
  [i \in 1 .. Len(questions) |-> strip(first_sentence(questions[i]))]

\* the cache is not consulted
display_related_questions_uncached(m, previous_query, response) ==
  LET related_questions ==
        generate_related_questions(previous_query, MaxQuestions, response)
  IN  shown_questions(
        [m EXCEPT !.ss.related_questions[previous_query] =
                     Some(clean_for_display(related_questions)),
                  !.tr.followup_calls = @ + 1],
        related_questions)

\* lines 225-268
display_related_questions(m, previous_query, response) ==
  IF ~Has(m.ss.related_questions[previous_query])
  THEN LET related_questions ==
             generate_related_questions(previous_query, MaxQuestions,
                                        response)
       IN  shown_questions(
             [m EXCEPT !.ss.related_questions[previous_query] =
                          Some(clean_for_display(related_questions)),
                       !.tr.followup_calls = @ + 1],
             related_questions)
  ELSE shown_questions(m, Get(m.ss.related_questions[previous_query]))

sample_questions == <<<<"q1">>, <<"q2">>>>

display_sample_questions(m) == question_buttons(m, "sample", sample_questions, 1)

(***************************************************************************)
(* src/app.py: BitcoinL2RAG.main, one script run                           *)
(***************************************************************************)
TabId == "tab"
EmptyStr == <<>>
Fingerprint(query, tab_id) == query \o <<"_", tab_id>>

\* the most recent human message, Absent when there is none
MostRecentQuery(messages) ==
  IF HumanIndexes(messages) = {} THEN Absent
  ELSE Some(messages[CHOOSE i \in HumanIndexes(messages) :
                       \A k \in HumanIndexes(messages) : k <= i].content)

\* lines 577-603: keep the reasoning and context of the latest response
store_thinking_context(m) ==
  IF ~Truthy(m.ss.response_data) THEN m
  ELSE LET data == Get(m.ss.response_data)
           n == Len(Messages(m.ss))
       IN  IF Has(m.ss.chat_history) /\ n > 0 /\ n \div 2 >= 1
           THEN [m EXCEPT !.ss.thinking[(n \div 2) - 1] = Some(data.thinking),
                          !.ss.context[(n \div 2) - 1] = Some(data.context)]
           ELSE m

\* lines 607-653: the tab id, the stored sample question, the question input
question_input(m, typed) ==
  LET m1 == [m EXCEPT !.ss.tab_id = IF Has(@) THEN @ ELSE Some(TabId)]
  IN  IF Has(m1.ss.sample_question_selected)
      THEN [m1 EXCEPT !.query = Get(m1.ss.sample_question_selected),
                      !.ss.sample_question_selected = Absent,
                      !.box = EmptyStr]
      ELSE [m1 EXCEPT !.query = typed]

\* lines 656-672
question_shortcuts(m, env) ==
  LET most_recent_query == MostRecentQuery(Messages(m.ss))
  IN  IF Has(most_recent_query)
      THEN display_related_questions(m, Get(most_recent_query), env.rel)
      ELSE display_sample_questions(m)

\* the fingerprint is not consulted
should_process_always(query, is_new_query, regenerate_query) ==
  query # EmptyStr

\* line 695: if query and (is_new_query or regenerate_query)
should_process(query, is_new_query, regenerate_query) ==
  query # EmptyStr /\ (is_new_query \/ regenerate_query # EmptyStr)

\* the fingerprint is cleared when the query has failed
store_response_retrying(r, query, env) ==
  IF ~Has(r.response)
  THEN [Ctl(Show(r.m, "error_main"), "go") EXCEPT
          !.ss.response_data = Some(NoneVal),
          !.ss.query_fingerprint = Some(EmptyStr)]
  ELSE
    LET response == Get(r.response)
        m4 == [r.m EXCEPT !.ss.response_data =
                  Some([query |-> query,
                        answer |-> response.answer,
                        thinking |-> response.thinking,
                        context |-> response.context])]
        m5 == IF Has(m4.ss.chat_history) /\ Messages(m4.ss) # <<>>
              THEN save_chat_history(m4, Messages(m4.ss), env)
              ELSE m4
    IN  Ctl(m5, "rerun")

\* lines 704-727: what main does with the outcome r of process_query
store_response(r, query, env) ==
  IF ~Has(r.response)
  THEN [Ctl(Show(r.m, "error_main"), "go") EXCEPT
          !.ss.response_data = Some(NoneVal)]
  ELSE
    LET response == Get(r.response)
        m4 == [r.m EXCEPT !.ss.response_data =
                  Some([query |-> query,
                        answer |-> response.answer,
                        thinking |-> response.thinking,
                        context |-> response.context])]
        m5 == IF Has(m4.ss.chat_history) /\ Messages(m4.ss) # <<>>
              THEN save_chat_history(m4, Messages(m4.ss), env)
              ELSE m4
    IN  Ctl(m5, "rerun")

\* lines 680-728
handle_query(m, f, env) ==
  LET m1 == [m EXCEPT !.ss.query_fingerprint =
                         IF Has(@) THEN @ ELSE Some(EmptyStr),
                      !.tr.asked = TRUE, !.tr.input = m.query]
      regenerate_query ==
        IF Has(m.ss.regenerate_query) THEN Get(m.ss.regenerate_query)
        ELSE EmptyStr
      m2 == IF regenerate_query # EmptyStr
            THEN [m1 EXCEPT !.query = regenerate_query,
                            !.ss.regenerate_query = Absent,
                            !.tr.regenerate_query = regenerate_query]
            ELSE m1
      query == IF regenerate_query # EmptyStr THEN regenerate_query
               ELSE m.query
      current_fingerprint == Fingerprint(query, Get(m.ss.tab_id))
      is_new_query ==
        current_fingerprint #
          (IF Has(m.ss.query_fingerprint) THEN Get(m.ss.query_fingerprint)
           ELSE EmptyStr)
  IN  IF should_process(query, is_new_query, regenerate_query)
      THEN store_response(
             process_query([m2 EXCEPT !.ss.query_fingerprint =
                                         Some(current_fingerprint),
                                      !.tr.is_new = is_new_query],
                           query, f, env),
             query, env)
      ELSE [m2 EXCEPT !.tr.is_new = is_new_query]

YesButton == [kind |-> "yes"]
NoButton == [kind |-> "no"]
RegenerateButton == [kind |-> "regen"]
SubmitButton == [kind |-> "submit"]

\* lines 747-760
regenerate(m) ==
  LET data == Get(m.ss.response_data)
      messages == Messages(m.ss)
      n == Len(messages)
      m1 == [m EXCEPT !.ss.query_fingerprint = Some(EmptyStr)]
  IN  IF Has(m1.ss.chat_history) /\ n > 0 /\ ~messages[n].obj
      THEN Ctl(m1, "raise")
      ELSE LET m2 == IF Has(m1.ss.chat_history) /\ n > 0
                        /\ messages[n].type = "ai"
                     THEN [m1 EXCEPT !.ss.chat_history =
                                        Some(SubSeq(messages, 1, n - 1))]
                     ELSE m1
           IN  Ctl([m2 EXCEPT !.ss.regenerate_query = Some(data.query)],
                   "rerun")

\* the text typed into the text area of the detailed feedback
FeedbackText == <<"fb">>

\* lines 763-774; a click on Submit Feedback carries whether the text area
\* holds a text
detailed_feedback(m, time, env) ==
  IF m.ss.show_feedback # Some(TRUE) THEN m
  ELSE IF ~Clicked(m, SubmitButton) THEN Render(m, SubmitButton)
  ELSE IF m.tr.ev.feedback
  \* assigning st.session_state.feedback_text after the text area is
  \* created raises StreamlitAPIException
  THEN Ctl(Show(save_feedback(
                  Render([m EXCEPT !.ss.show_feedback = Some(FALSE)],
                         SubmitButton),
                  "negative", FeedbackText, Get(m.ss.response_data).query,
                  time, env),
                "thanks"), "raise")
  ELSE Show(Render(m, SubmitButton), "warning_no_feedback")

\* lines 746-760
regenerate_button(m, time, env) ==
  IF Clicked(m, RegenerateButton) THEN regenerate(Render(m, RegenerateButton))
  ELSE detailed_feedback(Render(m, RegenerateButton), time, env)

\* lines 743-745
no_button(m, time, env) ==
  IF Clicked(m, NoButton)
  THEN regenerate_button(Render([m EXCEPT !.ss.show_feedback = Some(TRUE)],
                                NoButton), time, env)
  ELSE regenerate_button(Render(m, NoButton), time, env)

\* lines 730-741
feedback_controls(m, time, env) ==
  IF ~Truthy(m.ss.response_data) THEN m
  ELSE IF Clicked(m, YesButton)
  THEN no_button(Show(save_feedback(Render(m, YesButton), "positive", <<>>,
                                    Get(m.ss.response_data).query, time,
                                    env),
                      "thanks"), time, env)
  ELSE no_button(Render(m, YesButton), time, env)

\* a step of the script is skipped once the run has ended
main(s, d, fb, f, ev, typed, envkey, customkey, depth, time, env) ==
  LET m0 == [Start(s, d, fb, ev) EXCEPT
               !.ss.session_id = IF Has(@) THEN @ ELSE Some(time),
               !.box = typed]
      sidebar(m) ==
        IF m.ctl = "go"
        THEN display_sidebar_stats(m, envkey, customkey, depth)
        ELSE m
      input(m) ==
        IF m.ctl = "go" THEN question_input(store_thinking_context(m), typed)
        ELSE m
      shortcuts(m) == IF m.ctl = "go" THEN question_shortcuts(m, env) ELSE m
      answer(m) == IF m.ctl = "go" THEN handle_query(m, f, env) ELSE m
      feedback(m) ==
        IF m.ctl = "go" THEN feedback_controls(m, time, env) ELSE m
  IN  feedback(answer(shortcuts(input(sidebar(
        initialize_components(m0, f, env))))))

(***************************************************************************)
(* The session: script runs and the environment                            *)
(***************************************************************************)
PtIdle ==
  [mode |-> "idle", R |-> <<>>, A |-> <<>>, raw |-> <<>>, out |-> Absent]

Init ==
  /\ ss = EmptyState
  /\ file \in {Absent} \cup {Some(c) : c \in Contents}
  /\ disk = Absent
  /\ box = EmptyStr
  /\ custom_key = FALSE
  /\ env_key \in BOOLEAN
  /\ pending = FALSE
  /\ run = NoRun
  /\ pt = PtIdle
  /\ slider = DefaultDepth
  /\ now = FirstSecond
  /\ other = Absent
  /\ peer = NoPeer
  /\ feedback_dir = NoFeedback

\* The outcomes that one script run can observe: the outcome of a call the
\* run does not make is fixed, so that it is not enumerated.
RunOutcomes(typed, envs) ==
  LET will_init ==
        \/ ~Has(ss.vectors)
        \/ Has(file) /\ Has(ss.csv_hash)
             /\ Get(ss.csv_hash) # get_file_hash(Get(file))
      query == IF Has(ss.regenerate_query) THEN Get(ss.regenerate_query)
               ELSE IF Has(ss.sample_question_selected)
               THEN Get(ss.sample_question_selected) ELSE typed
      may_query ==
        /\ query # EmptyStr
        /\ \/ Has(ss.regenerate_query)
           \/ ~Has(ss.query_fingerprint)
           \/ Get(ss.query_fingerprint) # Fingerprint(query, TabId)
      log == IF will_init /\ Has(disk) THEN Messages(ss) \o Get(disk)
             ELSE Messages(ss)
      may_generate ==
        \E q \in Questions :
          /\ ~Has(ss.related_questions[q])
          /\ \E i \in 1 .. Len(log) : log[i].content = q
  IN  {env \in envs :
         /\ env.emb \/ (env.hist /\ env.load /\ env.vs /\ ~Has(env.llm)
                          /\ env.rel = NoRelated)
         /\ will_init \/ env.emb
         /\ (will_init /\ Has(disk)) \/ env.hist
         /\ (will_init /\ Has(file)) \/ (env.load /\ env.vs)
         /\ may_query \/ ~Has(env.llm)
         /\ (may_query /\ Has(env.llm)) \/ env.save
         /\ may_generate \/ env.rel = NoRelated}

\* one script run of main with the given widget event and question text
ScriptRun(ev, typed, customkey, depth, envs) ==
  \E env \in RunOutcomes(typed, envs) :
    \E r \in {main(ss, disk, feedback_dir, file, ev, typed, env_key,
                     customkey, depth, now, env)} :
        /\ Len(Messages(r.ss)) <= MaxLog
        /\ ss' = r.ss
        /\ disk' = r.disk
        /\ r.fb.saved <= MaxFeedback
        /\ feedback_dir' = r.fb
        /\ box' = r.box
        /\ custom_key' = customkey
        /\ slider' = depth
        /\ pending' = (r.ctl = "rerun")
        /\ run' = [r.tr EXCEPT !.ctl = IF r.ctl = "go" THEN "done" ELSE r.ctl]
        /\ UNCHANGED <<file, env_key, pt, now, other, peer>>

\* the run that st.rerun() starts
Rerun(envs) ==
  /\ pending
  /\ ScriptRun([kind |-> "none"], box, custom_key, slider, envs)

\* the user enters a question text
SubmitQuestion(envs) ==
  /\ ~pending
  /\ \E typed \in Questions \cup {EmptyStr} :
        /\ typed # box
        /\ ScriptRun([kind |-> "none"], typed, custom_key, slider, envs)

\* the user clicks a button of the page, of one of the given kinds
ClickButton(kinds, envs) ==
  /\ ~pending
  /\ \E w \in run.widgets : \E ev \in Events(w) :
        w.kind \in kinds /\ ScriptRun(ev, box, custom_key, slider, envs)

\* the user enters or removes a custom API key
SetApiKey(envs) ==
  /\ ~pending
  /\ ScriptRun([kind |-> "none"], box, ~custom_key, slider, envs)

\* the user moves the Search Depth slider
SetDepth(envs) ==
  /\ ~pending
  /\ \E depth \in Depths \ {slider} :
        ScriptRun([kind |-> "none"], box, custom_key, depth, envs)

\* a run caused by any other interaction (selection, reload of the script)
Interact(envs) ==
  /\ ~pending
  /\ ScriptRun([kind |-> "none"], box, custom_key, slider, envs)

\* data.csv is replaced, removed or created
DatasetChange ==
  /\ file' \in ({Absent} \cup {Some(c) : c \in Contents}) \ {file}
  /\ UNCHANGED <<ss, disk, box, custom_key, env_key, pending, run, pt, slider,
               now, other, peer, feedback_dir>>

ButtonKinds ==
  {"hist", "clear", "sample", "related", "yes", "no", "regen", "submit"}

(***************************************************************************)
(* Spec: the session with dataset changes.  The buttons that act on the    *)
(* conversation can be clicked; the model call and the reading of the      *)
(* history file may fail, the other external calls succeed and the         *)
(* follow-up generator returns nothing.                                    *)
(***************************************************************************)
SessionOutcomes ==
  {env \in Outcomes :
     /\ env.emb /\ env.load /\ env.vs /\ env.save /\ env.rel = NoRelated
     /\ ~env.fb}

SessionButtons == {"hist", "clear", "sample", "related", "yes", "regen"}

Next ==
  \/ Rerun(SessionOutcomes)
  \/ SubmitQuestion(SessionOutcomes)
  \/ ClickButton(SessionButtons, SessionOutcomes)
  \/ Interact(SessionOutcomes)
  \/ DatasetChange

Spec == Init /\ [][Next]_vars

\* A step taken while a rerun is pending that is not a change of the dataset:
\* under Next it is the run that st.rerun() has queued. The first disjunct is
\* such a step as well; it is a successor that is found without running the
\* script, so that the action is enabled exactly when a rerun is pending.
RerunStarted ==
  /\ pending
  /\ \/ /\ pending' = FALSE
        /\ UNCHANGED <<ss, file, disk, box, custom_key, env_key, run, pt,
                       slider, now, other, peer, feedback_dir>>
     \/ file' = file

\* st.rerun() ends the run and queues the next one, which the script runner
\* always starts: a pending rerun is not postponed for ever. Nothing obliges
\* the user or the dataset to act.
LiveSpec == Spec /\ WF_vars(RerunStarted)

(***************************************************************************)
(* WidgetSpec: every widget of the page on a dataset that does not change. *)
(* The model call, the building of the index and the follow-up generator   *)
(* may fail.                                                               *)
(***************************************************************************)
WidgetOutcomes ==
  {env \in Outcomes :
     env.emb /\ env.hist /\ env.load /\ env.save /\ ~env.fb}

WidgetNext ==
  \/ Rerun(WidgetOutcomes)
  \/ SubmitQuestion(WidgetOutcomes)
  \/ ClickButton(ButtonKinds, WidgetOutcomes)
  \/ SetApiKey(WidgetOutcomes)
  \/ Interact(WidgetOutcomes)

WidgetSpec == Init /\ [][WidgetNext]_vars

(***************************************************************************)
(* FaultSpec: dataset changes with every failure of the external calls of  *)
(* initialization, of the model and of the history file.                   *)
(***************************************************************************)
FaultOutcomes == {env \in Outcomes : env.rel = NoRelated /\ ~env.fb}

FaultNext ==
  \/ Rerun(FaultOutcomes)
  \/ SubmitQuestion(FaultOutcomes)
  \/ Interact(FaultOutcomes)
  \/ DatasetChange

FaultSpec == Init /\ [][FaultNext]_vars

(***************************************************************************)
(* DepthSpec: questions and the Search Depth slider; the model call may    *)
(* fail, the other external calls succeed.                                 *)
(***************************************************************************)
DepthOutcomes ==
  {env \in Outcomes :
     /\ env.emb /\ env.hist /\ env.load /\ env.vs /\ env.save
     /\ env.rel = NoRelated /\ ~env.fb}

DepthNext ==
  \/ Rerun(DepthOutcomes)
  \/ SubmitQuestion(DepthOutcomes)
  \/ SetDepth(DepthOutcomes)

\* the dataset is present and an API key is set in the environment
DepthInit == Init /\ file = Some(1) /\ env_key

DepthSpec == DepthInit /\ [][DepthNext]_vars

(***************************************************************************)
(* PeerSpec: the session next to another session of the application, which *)
(* is reduced to its session id, its conversation log and its history      *)
(* file.  The clock advances from one second to a later one.               *)
(***************************************************************************)
\* the name of the file that disk stands for
DiskName == IF Has(ss.session_id) THEN Get(ss.session_id) ELSE now

\* chat_history/<name>.json
FileNamed(name) == IF name = DiskName THEN disk ELSE other

\* time.time() passes to a later second
Tick ==
  /\ now = FirstSecond
  /\ now' = LaterSecond
  /\ IF Has(ss.session_id) THEN UNCHANGED <<disk, other>>
     ELSE disk' = other /\ other' = disk
  /\ UNCHANGED <<ss, file, box, custom_key, env_key, pending, run, pt, slider,
                 peer, feedback_dir>>

\* first script run of the other session: it takes its id from the clock
\* and loads the history file of that name
PeerStart ==
  /\ ~Has(peer.session_id)
  /\ peer' = [session_id |-> Some(now),
              chat_history |-> IF Has(FileNamed(now))
                               THEN Get(FileNamed(now)) ELSE <<>>]
  /\ UNCHANGED <<ss, file, disk, box, custom_key, env_key, pending, run, pt,
                 slider, now, other, feedback_dir>>

\* the other session answers a question and saves its log
PeerAnswer ==
  /\ Has(peer.session_id)
  /\ Len(peer.chat_history) + 2 <= MaxLog
  /\ \A i \in 1 .. Len(peer.chat_history) : peer.chat_history[i].obj
  /\ \E query \in Questions :
       LET log == add_messages(peer.chat_history, query, <<"y">>)
       IN  /\ peer' = [peer EXCEPT !.chat_history = log]
           /\ IF Get(peer.session_id) = DiskName
              THEN disk' = Some(to_json(log)) /\ other' = other
              ELSE other' = Some(to_json(log)) /\ disk' = disk
  /\ UNCHANGED <<ss, file, box, custom_key, env_key, pending, run, pt, slider,
                 now, feedback_dir>>

PeerNext ==
  \/ Rerun(DepthOutcomes)
  \/ SubmitQuestion(DepthOutcomes)
  \/ Tick
  \/ PeerStart
  \/ PeerAnswer

PeerSpec == DepthInit /\ [][PeerNext]_vars

(***************************************************************************)
(* FeedbackSpec: questions and the feedback buttons while the clock        *)
(* advances; the feedback directory may be writable.  The other            *)
(* specifications take it as not writable, which keeps the feedback files  *)
(* out of their states.                                                    *)
(***************************************************************************)
FeedbackOutcomes ==
  {env \in Outcomes :
     /\ env.emb /\ env.hist /\ env.load /\ env.vs /\ env.save
     /\ env.rel = NoRelated}

FeedbackNext ==
  \/ Rerun(FeedbackOutcomes)
  \/ SubmitQuestion(FeedbackOutcomes)
  \/ ClickButton({"yes", "no", "submit"}, FeedbackOutcomes)
  \/ Tick

FeedbackSpec == DepthInit /\ [][FeedbackNext]_vars

(***************************************************************************)
(* CacheSpec: the session with the follow-up generator.  The dataset is    *)
(* there at the start and may change, an API key is set; the model call,   *)
(* the reading of the history file and the follow-up generator may fail,   *)
(* and the generator may return a list or nothing.                         *)
(***************************************************************************)
CacheOutcomes ==
  {env \in Outcomes : env.emb /\ env.load /\ env.vs /\ env.save /\ ~env.fb}

CacheButtons == {"clear", "related", "sample"}

CacheNext ==
  \/ Rerun(CacheOutcomes)
  \/ SubmitQuestion(CacheOutcomes)
  \/ ClickButton(CacheButtons, CacheOutcomes)
  \/ DatasetChange

CacheSpec == DepthInit /\ [][CacheNext]_vars

(***************************************************************************)
(* The reasoning parser on its own                                         *)
(***************************************************************************)
RECURSIVE TextsUpTo(_)
TextsUpTo(n) ==
  IF n = 0 THEN {<<>>}
  ELSE LET S == TextsUpTo(n - 1)
       IN  S \cup {Append(t, k) : t \in S, k \in Tokens}

ParseInit ==
  /\ ss = EmptyState
  /\ file = Absent
  /\ disk = Absent
  /\ box = EmptyStr
  /\ custom_key = FALSE
  /\ env_key = FALSE
  /\ pending = FALSE
  /\ run = NoRun
  /\ slider = DefaultDepth
  /\ now = FirstSecond
  /\ other = Absent
  /\ peer = NoPeer
  /\ feedback_dir = NoFeedback
  /\ pt \in {[PtIdle EXCEPT !.mode = "raw", !.raw = t] :
               t \in TextsUpTo(MaxText)}
           \cup {[PtIdle EXCEPT !.mode = "tagged", !.R = r, !.A = a,
                                !.raw = ((<<OPEN>> \o r) \o <<CLOSE>>) \o a] :
                    r \in TextsUpTo(MaxPart), a \in TextsUpTo(MaxPart)}

Parse ==
  /\ ~Has(pt.out)
  /\ pt' = [pt EXCEPT !.out = Some(parse_thinking_and_response(pt.raw))]
  /\ UNCHANGED <<ss, file, disk, box, custom_key, env_key, pending, run, slider,
               now, other, peer, feedback_dir>>

ParseNext == Parse

ParseSpec == ParseInit /\ [][ParseNext]_vars

(***************************************************************************)
(* The follow-up question generator on its own                             *)
(***************************************************************************)
GenChars == {"1", DOT, WS, "?", "a", NL}

RECURSIVE CharsUpTo(_)
CharsUpTo(n) ==
  IF n = 0 THEN {<<>>}
  ELSE LET S == CharsUpTo(n - 1)
       IN  S \cup {Append(t, k) : t \in S, k \in GenChars}

\* the items of the numbered lists
ItemTexts ==
  {<<"a", "?">>, <<"a", "?", WS, "a">>, <<WS, "a", "?", WS>>,
   <<"a", "?", "a">>, <<"a", WS, "2", DOT, "a", "?">>, <<>>}

RECURSIVE ItemLists(_)
ItemLists(n) ==
  IF n = 0 THEN {<<>>}
  ELSE LET S == ItemLists(n - 1)
       IN  S \cup {Append(l, x) : l \in S, x \in ItemTexts}

ItemNumber(i) == <<"1", "2", "3", "4", "5", "6">>[((i - 1) % 6) + 1]

\* '1. <item>\n2. <item>\n ...'
RECURSIVE numbered_list(_, _)
numbered_list(items, i) ==
  IF i > Len(items) THEN <<>>
  ELSE (<<ItemNumber(i), DOT, WS>> \o items[i] \o <<NL>>)
         \o numbered_list(items, i + 1)

GenInit ==
  /\ ss = EmptyState
  /\ file = Absent
  /\ disk = Absent
  /\ box = EmptyStr
  /\ custom_key = FALSE
  /\ env_key = FALSE
  /\ pending = FALSE
  /\ run = NoRun
  /\ slider = DefaultDepth
  /\ now = FirstSecond
  /\ other = Absent
  /\ peer = NoPeer
  /\ feedback_dir = NoFeedback
  /\ pt \in {[mode |-> "failed", items |-> <<>>, response |-> Absent,
              out |-> Absent]}
           \cup {[mode |-> "text", items |-> <<>>, response |-> Some(t),
                  out |-> Absent] : t \in CharsUpTo(MaxResp)}
           \cup {[mode |-> "list", items |-> l,
                  response |-> Some(numbered_list(l, 1)),
                  out |-> Absent] : l \in ItemLists(MaxItems)}

Generate ==
  /\ ~Has(pt.out)
  /\ pt' = [pt EXCEPT !.out = Some(generate_related_questions(
                                      <<"q1">>, MaxQuestions, pt.response))]
  /\ UNCHANGED <<ss, file, disk, box, custom_key, env_key, pending, run, slider,
               now, other, peer, feedback_dir>>

GenNext == Generate

GenSpec == GenInit /\ [][GenNext]_vars

(***************************************************************************)
(* The citation extractor on its own                                       *)
(***************************************************************************)
Urls == {<<HTTP, "a">>, <<HTTP, "b">>}

\* what follows a URL in the text of a chunk
UrlSeparators == {<<WS>>, <<NL>>, <<DOT, WS>>, <<",">>, <<>>}

\* the texts made of up to n URLs, each with what follows it
RECURSIVE UrlTexts(_)
UrlTexts(n) ==
  IF n = 0 THEN {[text |-> <<>>, urls |-> {}]}
  ELSE LET S == UrlTexts(n - 1)
       IN  S \cup {[text |-> (x.text \o u) \o sep,
                    urls |-> x.urls \cup {u}] :
                     x \in S, u \in Urls, sep \in UrlSeparators}

\* the letters of the texts that mention projects
ProjectChars == {"A", "a", "r", "R", "k", "c", "h", "m", WS}

RECURSIVE ProjectTexts(_)
ProjectTexts(n) ==
  IF n = 0 THEN {<<>>}
  ELSE LET S == ProjectTexts(n - 1)
       IN  S \cup {Append(t, c) : t \in S, c \in ProjectChars}

CiteInit ==
  /\ ss = EmptyState
  /\ file = Absent
  /\ disk = Absent
  /\ box = EmptyStr
  /\ custom_key = FALSE
  /\ env_key = FALSE
  /\ pending = FALSE
  /\ run = NoRun
  /\ slider = DefaultDepth
  /\ now = FirstSecond
  /\ other = Absent
  /\ peer = NoPeer
  /\ feedback_dir = NoFeedback
  /\ pt \in {[mode |-> "urls",
               context |-> <<[page_content |-> x.text, url |-> url]>>,
               urls |-> x.urls \cup url, out |-> Absent] :
               x \in UrlTexts(MaxUrls), url \in {Absent} \cup {Some(u) : u \in Urls}}
           \cup {[mode |-> "projects",
                  context |-> <<[page_content |-> t, url |-> Absent],
                                [page_content |-> <<"a">>, url |-> Absent]>>,
                  urls |-> {}, out |-> Absent] :
                  t \in ProjectTexts(MaxCite)}

Cite ==
  /\ ~Has(pt.out)
  /\ \E citations \in display_citations(pt.context) :
        pt' = [pt EXCEPT !.out = Some(citations)]
  /\ UNCHANGED <<ss, file, disk, box, custom_key, env_key, pending, run, slider,
                 now, other, peer, feedback_dir>>

CiteNext == Cite

CiteSpec == CiteInit /\ [][CiteNext]_vars

(***************************************************************************)
(* The text splitter on its own: the chunks are built twice from the same  *)
(* records.                                                                *)
(***************************************************************************)
RecordChars == {"w", "v", NL, ",", WS}

RECURSIVE RecordTexts(_)
RecordTexts(n) ==
  IF n = 0 THEN {<<>>}
  ELSE LET S == RecordTexts(n - 1)
       IN  S \cup {Append(t, c) : t \in S, c \in RecordChars}

ChunkInit ==
  /\ ss = EmptyState
  /\ file = Absent
  /\ disk = Absent
  /\ box = EmptyStr
  /\ custom_key = FALSE
  /\ env_key = FALSE
  /\ pending = FALSE
  /\ run = NoRun
  /\ slider = DefaultDepth
  /\ now = FirstSecond
  /\ other = Absent
  /\ peer = NoPeer
  /\ feedback_dir = NoFeedback
  /\ pt \in {[mode |-> "chunks", docs |-> <<t, <<"v", NL, "v">>>>,
               final_documents |-> Absent, builds |-> <<>>] :
               t \in RecordTexts(MaxRecord)}

\* create_vector_store builds the chunks of the records
BuildChunks ==
  /\ pt.mode = "chunks"
  /\ Len(pt.builds) < 2
  /\ \E chunks \in {split_documents(pt.docs,
                                     IF Has(pt.final_documents)
                                     THEN Get(pt.final_documents)
                                     ELSE <<>>)} :
        pt' = [pt EXCEPT !.final_documents = Some(chunks),
                         !.builds = Append(@, chunks)]
  /\ UNCHANGED <<ss, file, disk, box, custom_key, env_key, pending, run, slider,
                 now, other, peer, feedback_dir>>

ChunkNext == BuildChunks

ChunkSpec == ChunkInit /\ [][ChunkNext]_vars

TypeOK ==
  /\ pending \in BOOLEAN
  /\ Len(Messages(ss)) <= MaxLog

(***************************************************************************)
(* Properties                                                              *)
(***************************************************************************)
IsPrefix(a, b) == Len(a) <= Len(b) /\ SubSeq(b, 1, Len(a)) = a

\* C1: when check_csv_updates sees a changed hash and a question is answered
\* in that run, the records, the chunks and the index used for the answer
\* were all rebuilt from the current file.
C1_RebuildBeforeAnswer ==
  (run.mismatch /\ Has(run.served)) =>
     LET s == Get(run.served)
     IN  s.docs = s.file /\ s.final_documents = s.file /\ s.vectors = s.file

\* C2: whenever a query is served, the vector index and the chunk set derive
\* from the one dataset content whose hash is the recorded csv_hash.
C2_ServedFromRecordedFingerprint ==
  Has(run.served) =>
     LET s == Get(run.served)
     IN  /\ Has(s.vectors) /\ Has(s.final_documents) /\ Has(s.csv_hash)
         /\ s.vectors = s.final_documents
         /\ get_file_hash(Get(s.vectors)) = Get(s.csv_hash)

\* C3: when check_csv_updates returns after a hash mismatch, docs,
\* final_documents, vectors, web_documents and csv_data are all absent from
\* the session state and csv_hash is the current hash.
C3_MismatchInvalidatesAll ==
  Has(run.checked) =>
     LET s == Get(run.checked)
     IN  /\ ~Has(s.docs) /\ ~Has(s.final_documents) /\ ~Has(s.vectors)
         /\ ~Has(s.web_documents) /\ ~Has(s.csv_data)
         /\ s.csv_hash = Some(s.current_hash)

\* C4: a script run (a step that is not a change of the dataset file) whose
\* question has the stored fingerprint, with no regenerate_query flag set,
\* makes no model call.
C4_SameFingerprintNoCall ==
  [][(/\ file' = file
      /\ Has(ss.query_fingerprint)
      /\ ~Has(ss.regenerate_query)
      /\ run'.asked
      /\ Fingerprint(run'.input, TabId) = Get(ss.query_fingerprint))
     => (run'.calls = 0 /\ run'.pq = "none")]_vars

C4_Witness ==
  /\ run.asked /\ run.input # EmptyStr /\ ~run.is_new
  /\ run.calls = 0 /\ run.pq = "none"
  /\ Messages(ss) # <<>>

\* C5: a query that fails (no credential, no index, or the chain raises)
\* leaves the conversation log as it was before the query, and the error is
\* shown.
C5_FailedQueryKeepsLog ==
  run.pq = "fail" =>
     /\ run.pq_after = run.pq_before
     /\ Messages(ss) = run.pq_before
     /\ {"error_process_query", "error_main"} \subseteq run.shown

C5_Witness ==
  /\ run.pq = "fail" /\ run.pq_before # <<>>
  /\ "error_no_api_key" \in run.shown

\* C6 as stated: apart from Clear Chat, every step keeps the log before it
\* as a prefix of the log after it.
C6_AppendOnlyExceptClear ==
  [][IsPrefix(Messages(ss), Messages(ss')) \/ run'.ev.kind = "clear"]_vars

\* C6 amended: apart from Clear Chat and from a click on Regenerate, which
\* removes the final AI answer, every step keeps the log before it as a
\* prefix of the log after it.
C6_AppendOnlyExceptClearRegenerate ==
  [][\/ IsPrefix(Messages(ss), Messages(ss'))
     \/ run'.ev.kind = "clear"
     \/ /\ run'.ev.kind = "regen"
        /\ Messages(ss) # <<>>
        /\ Messages(ss)[Len(Messages(ss))].type = "ai"
        /\ Messages(ss') = SubSeq(Messages(ss), 1, Len(Messages(ss)) - 1)]_vars

C6_Witness ==
  /\ run.pq = "ok" /\ run.pq_before # <<>>
  /\ IsPrefix(run.pq_before, Messages(ss))
  /\ Len(Messages(ss)) = Len(run.pq_before) + 2

\* C7: after a query that completed successfully the history file holds the
\* full turn sequence of the in-memory log.
C7_PersistedAfterAnswer ==
  run.pq = "ok" => disk = Some(to_json(Messages(ss)))

\* C8: an initialization pass in a session that has already started leaves
\* the conversation log unchanged.
C8_HistoryLoadedOnlyAtStart ==
  (run.inits /\ run.started) => run.init_after = run.init_before

\* C9 as stated: for every R and A, '<think>' + R + '</think>' + A parses to
\* reasoning R and answer A.
C9_RoundTrip ==
  (pt.mode = "tagged" /\ Has(pt.out)) =>
     (Get(pt.out).thinking = pt.R /\ Get(pt.out).answer = pt.A)

\* u is t without its leading and trailing whitespace
IsTrimOf(u, t) ==
  /\ \E i \in 0 .. Len(t) : \E j \in i .. Len(t) :
        /\ u = SubSeq(t, i + 1, j)
        /\ \A k \in (1 .. i) \cup ((j + 1) .. Len(t)) : t[k] = WS
  /\ u # <<>> => (u[1] # WS /\ u[Len(u)] # WS)

HasToken(t, k) == \E i \in 1 .. Len(t) : t[i] = k
HasPair(t) ==
  \E i \in 1 .. Len(t) : \E j \in (i + 1) .. Len(t) :
     t[i] = OPEN /\ t[j] = CLOSE

\* C9 amended: for every R without a closing tag and every A without a
\* complete delimiter pair, '<think>' + R + '</think>' + A parses to R and A
\* with their surrounding whitespace removed.
C9_RoundTripTrimmed ==
  (/\ pt.mode = "tagged" /\ Has(pt.out)
   /\ ~HasToken(pt.R, CLOSE) /\ ~HasPair(pt.A)) =>
     /\ IsTrimOf(Get(pt.out).thinking, pt.R)
     /\ IsTrimOf(Get(pt.out).answer, pt.A)

C9_Witness ==
  /\ pt.mode = "tagged" /\ Has(pt.out)
  /\ ~HasToken(pt.R, CLOSE) /\ ~HasPair(pt.A)
  /\ HasToken(pt.A, CLOSE)
  /\ Get(pt.out).thinking # pt.R /\ Get(pt.out).thinking # <<>>

\* C10: a text without a complete delimiter pair parses to an empty
\* reasoning and to the text itself as the answer.
C10_NoPairUnchanged ==
  (Has(pt.out) /\ ~HasPair(pt.raw)) =>
     Get(pt.out) = [thinking |-> <<>>, answer |-> pt.raw]

C10_Witness ==
  /\ Has(pt.out) /\ ~HasPair(pt.raw)
  /\ HasToken(pt.raw, OPEN) /\ pt.raw[Len(pt.raw)] = WS
  /\ Get(pt.out).answer = pt.raw

\* C11: an initialization pass that finds the dataset file missing or that
\* cannot load it ends with initialize_components returning False: main
\* stops before the question input, no index exists and no success message
\* is shown.
C11_LoadFailureStopsInit ==
  ({"error_csv_not_found", "error_loading_csv"} \cap run.shown # {}) =>
     /\ run.ctl = "return"
     /\ ~run.asked
     /\ ~Has(ss.vectors)
     /\ "initialized_successfully" \notin run.shown

\* C12: a query attempted while no vector index exists fails: no model call
\* is made, the error is shown, the log is as before the query and no
\* response envelope is stored.
C12_NoIndexNoAnswer ==
  (run.pq # "none" /\ ~Has(ss.vectors)) =>
     /\ run.pq = "fail"
     /\ run.calls = 0
     /\ {"error_process_query", "error_main"} \subseteq run.shown
     /\ Messages(ss) = run.pq_before
     /\ ~Truthy(ss.response_data)

C12_Witness ==
  /\ run.pq = "fail" /\ ~Has(ss.vectors)
  /\ Truthy(ss.openrouter_api_key)
  /\ "error_vector_store" \in run.shown
  /\ run.calls = 0

\* the step is a script run that no new user action started: no click, the
\* same text in the question input, the same API key choice
NoUserAction ==
  /\ file' = file
  /\ run'.ev.kind = "none"
  /\ box' = box
  /\ custom_key' = custom_key

\* the last run ended an accepted query in Rendered or in Error
Rendered ==
  /\ run.pq = "ok"
  /\ Truthy(ss.response_data)
  /\ Get(ss.response_data).query = run.pq_query
  /\ Len(Messages(ss)) = Len(run.pq_before) + 2
  /\ IsPrefix(run.pq_before, Messages(ss))
  /\ {"error_process_query", "error_main"} \cap run.shown = {}

Error ==
  /\ run.pq = "fail"
  /\ {"error_process_query", "error_main"} \subseteq run.shown
  /\ ~Truthy(ss.response_data)
  /\ Messages(ss) = run.pq_before

\* C13: every accepted query makes at most one chain call and ends in
\* exactly one of Rendered and Error, and a script run that follows an Error
\* without a new user action makes no chain call.
C13_OneCallOneTerminalState ==
  [][(file' = file) =>
       /\ run'.calls <= 1
       /\ (run'.pq # "none") => ((Rendered' /\ ~Error') \/ (Error' /\ ~Rendered'))
       /\ (run.pq = "fail" /\ NoUserAction) => (run'.calls = 0 /\ run'.pq = "none")]_vars

C13_Witness ==
  /\ Error /\ run.calls = 1 /\ run.is_new
  /\ Messages(ss) # <<>>

\* C14: when the last processed query ended in Error, the next non-empty
\* question the user submits is processed.
C14_NextQuestionAfterError ==
  [][(/\ ss.response_data = Some(NoneVal)
      /\ file' = file
      /\ run'.ev.kind = "none"
      /\ run'.asked
      /\ box' # box
      /\ run'.input = box'
      /\ box' # EmptyStr)
     => run'.pq # "none"]_vars

\* the response envelope on display, Absent when there is none
Envelope(s) == IF Truthy(s.response_data) THEN s.response_data ELSE Absent

\* C15: a query that ends in Error leaves the log, the history file, the
\* index, the chunks and the displayed response envelope as they were before
\* it was submitted.
C15_FailedQueryPreservesState ==
  [][(/\ file' = file
      /\ run'.pq = "fail"
      /\ run'.ev.kind = "none"
      /\ ~run'.inits)
     => /\ Messages(ss') = Messages(ss)
        /\ disk' = disk
        /\ ss'.vectors = ss.vectors
        /\ ss'.final_documents = ss.final_documents
        /\ Envelope(ss') = Envelope(ss)]_vars

\* the text holds no number followed by a period
NoNumber(t) == \A i \in 1 .. Len(t) : ~NumberAt(t, i)

\* C16: generate_related_questions returns a list to its caller in every
\* case, and the empty list when the model call failed or the response holds
\* no numbered item.
C16_GeneratorReturnsList ==
  Has(pt.out) =>
     /\ DOMAIN Get(pt.out) = 1 .. Len(Get(pt.out))
     /\ (~Has(pt.response) \/ NoNumber(Get(pt.response)))
           => Get(pt.out) = <<>>

\* a failed call has returned
C16_Witness ==
  /\ pt.mode = "failed"
  /\ ~Has(pt.response)
  /\ Has(pt.out)
  /\ Get(pt.out) = <<>>

\* t up to and with its first sentence terminator
RECURSIVE CutAtTerminator(_)
CutAtTerminator(t) ==
  IF t = <<>> THEN <<>>
  ELSE IF Head(t) \in Terminators THEN <<Head(t)>>
  ELSE <<Head(t)>> \o CutAtTerminator(Tail(t))

\* C17: a numbered list of N <= max_questions items, none of them blank,
\* yields the N items in order, each trimmed and cut at its first sentence
\* terminator; every result holds at most max_questions strings and no empty
\* string.
C17_NumberedListParsed ==
  Has(pt.out) =>
     LET list == Get(pt.out)
     IN  /\ Len(list) <= MaxQuestions
         /\ \A i \in 1 .. Len(list) : list[i] # <<>>
         /\ (/\ pt.mode = "list"
             /\ Len(pt.items) <= MaxQuestions
             /\ \A i \in 1 .. Len(pt.items) : strip(pt.items[i]) # <<>>)
            => /\ Len(list) = Len(pt.items)
               /\ \A i \in 1 .. Len(pt.items) :
                     list[i] = CutAtTerminator(strip(pt.items[i]))

\* C18: every answered question was retrieved with a depth k between 3 and
\* 15 that is the value of the Search Depth setting of that run (8 as long as
\* the slider was not moved), and its context holds at most k chunks, none
\* more similar to the question than the chunk before it.
C18_RetrievalDepth ==
  run.pq = "ok" =>
     /\ run.k >= MinDepth /\ run.k <= MaxDepth
     /\ run.k = slider
     /\ Len(run.retrieved) <= run.k
     /\ \A i \in 1 .. Len(run.retrieved) - 1 :
           Similarity(run.pq_query, Get(Get(run.served).vectors),
                      run.retrieved[i])
             >= Similarity(run.pq_query, Get(Get(run.served).vectors),
                           run.retrieved[i + 1])
     /\ Get(ss.response_data).context.docs = run.retrieved

\* a question answered after the slider was moved to its lowest value
C18_Witness ==
  /\ run.pq = "ok"
  /\ slider = MinDepth
  /\ run.k = MinDepth
  /\ Len(run.retrieved) = MinDepth

\* C19: no script run ends with an exception that escapes main().
C19_NoExceptionEscapes == run.ctl # "raise"

\* C20: two sessions never have the same session id, and a session that
\* starts begins with an empty log: it loads no turn from a history file.
C20_DistinctSessionFiles ==
  /\ (Has(ss.session_id) /\ Has(peer.session_id))
        => Get(ss.session_id) # Get(peer.session_id)
  /\ (run.inits /\ ~run.started) => run.init_after = <<>>

\* the feedback files that exist
StoredFeedback == {p \in FeedbackPaths : Has(feedback_dir.files[p])}

\* C21: every saved feedback event has a file of its own: there are as many
\* feedback files as feedback events were saved, none was written twice.
C21_OneFilePerFeedback ==
  Cardinality(StoredFeedback) = feedback_dir.saved

\* C22: the links extracted from the chunks are the distinct URLs of the
\* chunk texts and of the chunk metadata, each once, and the projects are
\* the projects of the vocabulary that occur in some chunk text whatever the
\* case of the letters.
C22_CitationsExact ==
  Has(pt.out) /\ pt.mode \in {"urls", "projects"} =>
     LET citations == Get(pt.out)
     IN  /\ \A i, j \in DOMAIN citations.links :
               citations.links[i] = citations.links[j] => i = j
         /\ Range(citations.links) = pt.urls
         /\ citations.projects_mentioned =
               {project \in l2_projects :
                  \E i \in DOMAIN pt.context :
                     Contains(lower(pt.context[i].page_content),
                              lower(project))}

PairLog(messages) ==
  /\ Len(messages) % 2 = 0
  /\ \A i \in 1 .. Len(messages) :
        messages[i].type = (IF i % 2 = 1 THEN "human" ELSE "ai")

\* C24: whenever a script run has ended without st.rerun(), the conversation
\* log is a sequence of pairs of a human message and the AI message that
\* answers it.
C24_LogOfPairs == ~pending => PairLog(Messages(ss))

\* src/app.py lines 506-573: the walk over the log that renders it. A human
\* message followed by an AI message is rendered as a pair with
\* message_index = i // 2 (i counted from 0), and the walk goes on two
\* messages later; any other message is rendered alone. The pair whose answer
\* is the last message is the latest one: its reasoning and citations come
\* from response_data, those of the other pairs from thinking_* and context_*.
RECURSIVE history_pairs(_, _)
history_pairs(messages, i) ==
  IF i > Len(messages) THEN {}
  ELSE IF i + 1 <= Len(messages) /\ messages[i].type = "human"
          /\ messages[i + 1].type = "ai"
  THEN {[message_index |-> (i - 1) \div 2,
         query |-> messages[i].content,
         is_latest_response |-> (i + 1 = Len(messages))]}
       \cup history_pairs(messages, i + 2)
  ELSE history_pairs(messages, i + 1)

\* the reasoning and the chunks rendered next to a pair are those of the pair
RenderedWithOwnContext ==
  \A p \in history_pairs(Messages(ss), 1) :
     (~p.is_latest_response /\ p.message_index \in Idx
        /\ Has(ss.context[p.message_index]))
     => Get(ss.context[p.message_index]).q = p.query

\* thinking_i and context_i, when set, are those of the pair rendered as i
StoredForOwnPair ==
  \A i \in Idx :
     Has(ss.context[i])
     => \E p \in history_pairs(Messages(ss), 1) :
          p.message_index = i /\ Get(ss.context[i]).q = p.query

\* C25: whenever a script run has ended without st.rerun(), every thinking_i
\* and context_i that is set holds the reasoning and the chunks of the i-th
\* question/answer pair, and what is rendered next to a pair of the log is
\* the reasoning and the chunks of that pair.
C25_ContextOfOwnPair ==
  ~pending => (StoredForOwnPair /\ RenderedWithOwnContext)

\* nothing of the conversation is left in the session state
Cleared(s) ==
  /\ Has(s.chat_history) /\ Messages(s) = <<>>
  /\ ~Has(s.response_data)
  /\ \A i \in Idx : ~Has(s.thinking[i]) /\ ~Has(s.context[i])

\* C26: the run of a click on Clear Chat leaves the log empty and removes
\* response_data and every thinking_* and context_*; and an empty log of a
\* started session stays empty in every step except a run in which a
\* question is answered.
C26_ClearedStaysCleared ==
  [][/\ (run'.ev = ClearButton /\ ClearButton \in run'.widgets)
          => Cleared(ss')
     /\ (Has(ss.chat_history) /\ Messages(ss) = <<>>)
          => (Messages(ss') = <<>> \/ run'.pq = "ok")]_vars

RegenerateStored ==
  (run'.ev = RegenerateButton /\ file' = file)
    => /\ pending' /\ run'.calls = 0
       /\ Truthy(ss.response_data)
       /\ ss'.regenerate_query = Some(Get(ss.response_data).query)

\* the run that finds regenerate_query set consumes it and makes one model
\* call for it; when the call succeeds the new answer is the last turn
RegenerateProcessed ==
  (Has(ss.regenerate_query) /\ file' = file)
    => /\ ~Has(ss'.regenerate_query)
       /\ run'.calls = 1 /\ run'.pq_query = Get(ss.regenerate_query)
       /\ run'.pq = "ok"
            => /\ pending'
               /\ Messages(ss')[Len(Messages(ss'))]
                    = AIMessage(actual_answer(run'.pq_raw))
               /\ Messages(ss')[Len(Messages(ss')) - 1]
                    = HumanMessage(Get(ss.regenerate_query))

\* the rerun after the regeneration makes no model call
RegenerateNotRepeated ==
  (run.regenerate_query # EmptyStr /\ ~Has(ss.regenerate_query)
     /\ pending /\ file' = file)
    => run'.calls = 0 /\ ~Has(ss'.regenerate_query)

\* C28: a click on Regenerate causes exactly one new model call, for
\* response_data['query']: the run of the click stores the question and
\* reruns, the next run consumes regenerate_query and calls the model once
\* for it, the regenerated answer becomes the last turn, and the rerun after
\* it makes no further call.
C28_RegenerateOnce ==
  [][RegenerateStored /\ RegenerateProcessed /\ RegenerateNotRepeated]_vars

\* a run has ended without st.rerun(), with no model call that returned, and
\* no question is stored for a later run
Quiet ==
  /\ ~pending
  /\ run.calls = 0 \/ run.pq = "fail"
  /\ ~Has(ss.sample_question_selected)
  /\ ~Has(ss.regenerate_query)

\* C29: the reruns that a run asks for with st.rerun() come to an end: from
\* every state with a rerun pending the session reaches a run that ends
\* without st.rerun() and without a model call that returned, with
\* sample_question_selected and regenerate_query unset.
C29_RerunsEnd == pending ~> Quiet

\* the buttons of the related questions that a run has rendered
RelatedButtons(r) == {w \in r.widgets : w.kind = "related"}

\* the buttons of a list of questions
ButtonsOf(list) ==
  {[kind |-> "related", i |-> i - 1, q |-> list[i]] : i \in 1 .. Len(list)}

\* C30: the list cached for a question is never replaced or removed; a run
\* makes at most one follow-up call, and only for a most recent question that
\* has no cached list, which it then caches (also when the generator failed
\* and the list is empty); a run that passes the related questions with a
\* cached list for the most recent question makes no follow-up call and
\* shows the cached list, or the notice when that list is empty.
C30_FollowUpsCachedOnce ==
  [][/\ \A q \in Questions :
          Has(ss.related_questions[q])
            => ss'.related_questions[q] = ss.related_questions[q]
     /\ file' = file =>
          /\ run'.followup_calls <= 1
          /\ run'.followup_calls = 1
               => \E q \in Questions :
                     /\ ~Has(ss.related_questions[q])
                     /\ Has(ss'.related_questions[q])
                     /\ \A p \in Questions \ {q} :
                           ss'.related_questions[p] = ss.related_questions[p]
          /\ \A q \in Questions :
               (/\ run'.asked
                /\ MostRecentQuery(Messages(ss)) = Some(q)
                /\ Has(ss.related_questions[q]))
               => /\ run'.followup_calls = 0
                  /\ RelatedButtons(run')
                       = ButtonsOf(Get(ss.related_questions[q]))
                  /\ Get(ss.related_questions[q]) = <<>>
                       => "info_no_related_questions" \in run'.shown]_vars

\* a run that rebuilds the index shows the cached, non-empty list of the
\* most recent question without a follow-up call
C30_Witness ==
  /\ run.asked /\ run.inits /\ run.followup_calls = 0
  /\ RelatedButtons(run) # {}
  /\ \E q \in Questions :
        /\ MostRecentQuery(Messages(ss)) = Some(q)
        /\ Has(ss.related_questions[q])
        /\ RelatedButtons(run) = ButtonsOf(Get(ss.related_questions[q]))

====
